---------------------------- MODULE Spec2Model ----------------------------
(***************************************************************************)
(* A model of chem-matcher (src/src/main.rs): the vocabulary builder       *)
(* parse_csv, the paragraph matcher search_keys_in_text, the report        *)
(* writer generate_report and the concurrent pipeline process_files.       *)
(*                                                                         *)
(* Strings are sequences of one-character strings, so that splitting,      *)
(* replacing, trimming and case conversion are computed character by       *)
(* character as the Rust code computes them.  All text is ASCII.           *)
(***************************************************************************)
EXTENDS Integers, Sequences, FiniteSets, TLC

(***************************************************************************)
(* Program constants (main.rs lines 22-25).                                *)
(***************************************************************************)
WORD_SPLITS ==
    {" ", "\t", "\n", "\r", ",", ".", ";", ":", "!", "?", "(", ")",
     "[", "]", "{", "}", "<", ">", "\"", "'"}

MIN_WORD_LENGTH == 5

MASK == <<"<", "|", "M", "O", "L", "E", "C", "U", "L", "E", "|", ">">>

(***************************************************************************)
(* Characters and strings.                                                 *)
(***************************************************************************)
LowerChars ==
    <<"a", "b", "c", "d", "e", "f", "g", "h", "i", "j", "k", "l", "m",
      "n", "o", "p", "q", "r", "s", "t", "u", "v", "w", "x", "y", "z">>

UpperChars ==
    <<"A", "B", "C", "D", "E", "F", "G", "H", "I", "J", "K", "L", "M",
      "N", "O", "P", "Q", "R", "S", "T", "U", "V", "W", "X", "Y", "Z">>

\* u8::make_ascii_uppercase on one character
ToAsciiUpper(c) ==
    IF \E i \in 1..26 : LowerChars[i] = c
    THEN UpperChars[CHOOSE i \in 1..26 : LowerChars[i] = c]
    ELSE c

\* u8::make_ascii_lowercase on one character
ToAsciiLower(c) ==
    IF \E i \in 1..26 : UpperChars[i] = c
    THEN LowerChars[CHOOSE i \in 1..26 : UpperChars[i] = c]
    ELSE c

\* the suffix of s that starts at index i
Drop(s, i) == SubSeq(s, i, Len(s))

\* whether pat occurs in s at index i
MatchesAt(s, i, pat) ==
    /\ i + Len(pat) - 1 <= Len(s)
    /\ SubSeq(s, i, i + Len(pat) - 1) = pat

\* str::replace(pat, rep) for a non-empty pat: every non-overlapping
\* occurrence, found left to right, is replaced
RECURSIVE Replace(_, _, _)
Replace(s, pat, rep) ==
    IF \A i \in 1..Len(s) : ~MatchesAt(s, i, pat) THEN s
    ELSE LET i == CHOOSE k \in 1..Len(s) :
                      /\ MatchesAt(s, k, pat)
                      /\ \A j \in 1..(k - 1) : ~MatchesAt(s, j, pat)
         IN  SubSeq(s, 1, i - 1) \o rep \o Replace(Drop(s, i + Len(pat)), pat, rep)

\* str::split(&[char]): the pieces between delimiter characters, empty
\* pieces included; a string with no delimiter is one piece
RECURSIVE SplitChars(_, _)
SplitChars(s, delims) ==
    IF \A i \in 1..Len(s) : s[i] \notin delims THEN <<s>>
    ELSE LET i == CHOOSE k \in 1..Len(s) :
                      /\ s[k] \in delims
                      /\ \A j \in 1..(k - 1) : s[j] \notin delims
         IN  <<SubSeq(s, 1, i - 1)>> \o SplitChars(Drop(s, i + 1), delims)

\* Regex::new(r"\n\n").split(text): the pieces between the leftmost
\* non-overlapping occurrences of two newlines
RECURSIVE SplitParagraphs(_)
SplitParagraphs(s) ==
    IF \A i \in 1..Len(s) : ~MatchesAt(s, i, <<"\n", "\n">>) THEN <<s>>
    ELSE LET i == CHOOSE k \in 1..Len(s) :
                      /\ MatchesAt(s, k, <<"\n", "\n">>)
                      /\ \A j \in 1..(k - 1) : ~MatchesAt(s, j, <<"\n", "\n">>)
         IN  <<SubSeq(s, 1, i - 1)>> \o SplitParagraphs(Drop(s, i + 2))

to_ascii_titlecase(s) ==
    IF s = <<>> THEN s ELSE <<ToAsciiUpper(s[1])>> \o Tail(s)

from_ascii_titlecase(s) ==
    IF s = <<>> THEN s ELSE <<ToAsciiLower(s[1])>> \o Tail(s)

(***************************************************************************)
(* search_keys_in_text (main.rs lines 150-205).                            *)
(*                                                                         *)
(* The locals of the paragraph closure are one record:                     *)
(*   count, last_word, last_count, last_key, seen, search_results.         *)
(* search_results is declared outside the closure and is carried from one  *)
(* paragraph to the next; the others are created anew for each paragraph.  *)
(***************************************************************************)
EmptyLocals ==
    [count |-> 0, last_word |-> <<>>, last_count |-> 0, last_key |-> <<>>,
     seen |-> {}, search_results |-> <<>>]

\* a mutation of ParagraphLocals: the seen set outlives the paragraph
ParagraphLocalsKeepSeen(prev) ==
    [count |-> 0, last_word |-> <<>>, last_count |-> 0, last_key |-> <<>>,
     seen |-> prev.seen, search_results |-> prev.search_results]

\* a mutation of ParagraphLocals: the lookback word outlives the paragraph
ParagraphLocalsKeepWord(prev) ==
    [count |-> 0, last_word |-> prev.last_word, last_count |-> 0,
     last_key |-> <<>>, seen |-> {}, search_results |-> prev.search_results]

\* lines 154-158: the locals at the start of a paragraph, prev being the
\* locals the previous paragraph (or the function entry) left
ParagraphLocals(prev) ==
    [count |-> 0, last_word |-> <<>>, last_count |-> 0, last_key |-> <<>>,
     seen |-> {}, search_results |-> prev.search_results]

\* a mutation of BigramKey: the current word is title-cased too
BigramKeyTitled(last_word, word) ==
    last_word \o <<" ">> \o to_ascii_titlecase(word)

\* lines 163-166
BigramKey(last_word, word) == last_word \o <<" ">> \o word

\* a mutation of UnigramApplies: the seen set is not consulted
UnigramAppliesUnseen(m, seen, last_word) ==
    /\ Len(last_word) >= MIN_WORD_LENGTH
    /\ last_word \in DOMAIN m

\* lines 170 and 191
UnigramApplies(m, seen, last_word) ==
    /\ Len(last_word) >= MIN_WORD_LENGTH
    /\ last_word \in DOMAIN m
    /\ last_word \notin seen

\* a mutation of BigramApplies: the length of the word is not tested
BigramAppliesAnyLength(m, seen, last_word, word) ==
    /\ BigramKey(last_word, word) \in DOMAIN m
    /\ BigramKey(last_word, word) \notin seen

\* line 168
BigramApplies(m, seen, last_word, word) ==
    /\ Len(word) >= MIN_WORD_LENGTH
    /\ BigramKey(last_word, word) \in DOMAIN m
    /\ BigramKey(last_word, word) \notin seen

\* a mutation of MaskKey: only the title-cased form is masked
MaskKeyTitleOnly(paragraph, key) == Replace(paragraph, key, MASK)

\* a mutation of MaskKey: only the lowercased form is masked
MaskKeyLowerOnly(paragraph, key) ==
    Replace(paragraph, from_ascii_titlecase(key), MASK)

\* str::replacen with a count of 1: the first occurrence alone is replaced
ReplaceFirst(s, pat, rep) ==
    IF pat = <<>> \/ ~\E i \in 1..Len(s) : MatchesAt(s, i, pat) THEN s
    ELSE LET i == CHOOSE i \in 1..Len(s) :
                      /\ MatchesAt(s, i, pat)
                      /\ \A j \in 1..(i - 1) : ~MatchesAt(s, j, pat)
         IN  SubSeq(s, 1, i - 1) \o rep \o Drop(s, i + Len(pat))

\* a mutation of MaskKey: the first occurrence of each form alone is masked
MaskKeyFirstOnly(paragraph, key) ==
    ReplaceFirst(ReplaceFirst(paragraph, key, MASK), from_ascii_titlecase(key), MASK)

\* lines 178-179
MaskKey(paragraph, key) ==
    Replace(Replace(paragraph, key, MASK), from_ascii_titlecase(key), MASK)

\* lines 195-198: the final pass replaces the title-cased form once more
MaskLastWord(paragraph, last_word) ==
    Replace(MaskKey(paragraph, last_word), last_word, MASK)

\* lines 159-188: the body of the token closure for one word
WordStep(m, paragraph, l, word) ==
    LET title_word == to_ascii_titlecase(word)
        bigram == BigramApplies(m, l.seen, l.last_word, word)
        unigram == ~bigram /\ UnigramApplies(m, l.seen, l.last_word)
        key == IF unigram THEN l.last_word ELSE BigramKey(l.last_word, word)
        found == bigram \/ unigram
    IN  [count |-> l.count + Len(word) + 1,
         last_word |-> title_word,
         last_count |-> l.count + Len(word) + 1,
         last_key |-> key,
         seen |-> IF found THEN l.seen \cup {key} ELSE l.seen,
         search_results |->
             IF found
             THEN Append(l.search_results, <<MaskKey(paragraph, key), key, m[key]>>)
             ELSE l.search_results]

\* a mutation of LastWordStep: the final pass is left out
LastWordStepSkipped(m, paragraph, l) == l

\* lines 190-200: "add the last word"
LastWordStep(m, paragraph, l) ==
    IF UnigramApplies(m, l.seen, l.last_word)
    THEN [l EXCEPT
            !.seen = @ \cup {l.last_word},
            !.search_results =
                Append(@, <<MaskLastWord(paragraph, l.last_word),
                            l.last_word, m[l.last_word]>>)]
    ELSE l

\* line 159 and line 188: the closure applied to every word, in order
RECURSIVE FoldWords(_, _, _, _)
FoldWords(m, paragraph, l, ws) ==
    IF ws = <<>> THEN l
    ELSE FoldWords(m, paragraph, WordStep(m, paragraph, l, Head(ws)), Tail(ws))

\* lines 153-202: the paragraph closure
SearchParagraph(m, prev, paragraph) ==
    LastWordStep(m, paragraph,
        FoldWords(m, paragraph, ParagraphLocals(prev),
                  SplitChars(paragraph, WORD_SPLITS)))

RECURSIVE FoldParagraphs(_, _, _)
FoldParagraphs(m, l, ps) ==
    IF ps = <<>> THEN l
    ELSE FoldParagraphs(m, SearchParagraph(m, l, Head(ps)), Tail(ps))

\* lines 150-205: the whole function
search_keys_in_text(m, t) ==
    FoldParagraphs(m, EmptyLocals, SplitParagraphs(t)).search_results

(***************************************************************************)
(* parse_csv (main.rs lines 114-147) and what it calls.                    *)
(***************************************************************************)
WhiteSpace == {" ", "\t", "\n", "\r"}

\* str::trim: leading and trailing white space removed
RECURSIVE Trim(_)
Trim(s) ==
    IF s = <<>> THEN s
    ELSE IF s[1] \in WhiteSpace THEN Trim(Tail(s))
    ELSE IF s[Len(s)] \in WhiteSpace THEN Trim(SubSeq(s, 1, Len(s) - 1))
    ELSE s

\* str::to_lowercase
ToLowercase(s) == [i \in 1..Len(s) |-> ToAsciiLower(s[i])]

\* Stemmer::stem of the English Snowball stemmer, a dependency of the
\* repository, reduced to the two suffix rules the repository's tests rely
\* on ("pathways" -> "pathway", "example" -> "exampl", "world" -> "world"):
\* a final "s" is dropped, then a final "e"
Stem(w) ==
    LET a == IF Len(w) > 2 /\ w[Len(w)] = "s" THEN SubSeq(w, 1, Len(w) - 1) ELSE w
    IN  IF Len(a) > 2 /\ a[Len(a)] = "e" THEN SubSeq(a, 1, Len(a) - 1) ELSE a

\* lines 68-70
standardize(word) == Stem(ToLowercase(Trim(word)))

\* str::lines: the pieces between "\n", a final empty piece dropped and one
\* trailing "\r" removed from each piece
Lines(content) ==
    LET pieces == SplitChars(content, {"\n"})
        kept == IF pieces[Len(pieces)] = <<>>
                THEN SubSeq(pieces, 1, Len(pieces) - 1) ELSE pieces
    IN  [i \in 1..Len(kept) |->
            IF kept[i] # <<>> /\ kept[i][Len(kept[i])] = "\r"
            THEN SubSeq(kept[i], 1, Len(kept[i]) - 1) ELSE kept[i]]

DigitChars == <<"0", "1", "2", "3", "4", "5", "6", "7", "8", "9">>

IsDigit(c) == \E d \in 1..10 : DigitChars[d] = c

DigitValue(c) == (CHOOSE d \in 1..10 : DigitChars[d] = c) - 1

RECURSIVE DigitsValue(_)
DigitsValue(s) ==
    IF s = <<>> THEN 0
    ELSE 10 * DigitsValue(SubSeq(s, 1, Len(s) - 1)) + DigitValue(s[Len(s)])

\* u32::MAX, 4294967295, as its decimal digits
U32_MAX_DIGITS == <<"4", "2", "9", "4", "9", "6", "7", "2", "9", "5">>

\* what a failed parse yields
ParseError == -1

RECURSIVE StripZeros(_)
StripZeros(s) == IF Len(s) > 1 /\ s[1] = "0" THEN StripZeros(Tail(s)) ELSE s

\* whether the number written by the digits a is greater than the one
\* written by the digits b, neither with a leading zero
DigitsGreater(a, b) ==
    \/ Len(a) > Len(b)
    \/ /\ Len(a) = Len(b)
       /\ \E i \in 1..Len(a) :
              /\ DigitValue(a[i]) > DigitValue(b[i])
              /\ \A j \in 1..(i - 1) : a[j] = b[j]

\* str::parse::<u32>: an optional "+", then one or more digits, the value
\* at most u32::MAX; anything else is an error
ParseU32(s) ==
    LET digits == IF s # <<>> /\ s[1] = "+" THEN Tail(s) ELSE s
    IN  IF digits = <<>> \/ \E i \in 1..Len(digits) : ~IsDigit(digits[i])
        THEN ParseError
        ELSE IF DigitsGreater(StripZeros(digits), U32_MAX_DIGITS)
             THEN ParseError
             ELSE DigitsValue(digits)

\* u32's Display: the decimal digits, no leading zero
RECURSIVE ToDecimal(_)
ToDecimal(n) ==
    IF n < 10 THEN <<DigitChars[n + 1]>>
    ELSE ToDecimal(n \div 10) \o <<DigitChars[(n % 10) + 1]>>

\* a mutation of MapInsert: an existing entry is kept
MapInsertKeepFirst(m, key, value) ==
    [k \in DOMAIN m \cup {key} |-> IF k \in DOMAIN m THEN m[k] ELSE value]

\* HashMap::insert: the entry of key is set, an older one replaced
MapInsert(m, key, value) ==
    [k \in DOMAIN m \cup {key} |-> IF k = key THEN value ELSE m[k]]

\* a mutation of Accepted: a form must be longer than the minimum
AcceptedLonger(key, banned_set) ==
    /\ Len(key) > MIN_WORD_LENGTH
    /\ standardize(key) \notin banned_set

\* line 134
Accepted(key, banned_set) ==
    /\ Len(key) >= MIN_WORD_LENGTH
    /\ standardize(key) \notin banned_set

\* a mutation of CsvLineStep: the identifier is parsed before the form is
\* tested
CsvLineStepParseFirst(st, line, banned_set) ==
    LET split == SplitChars(line, {"\t"}) IN
    IF Len(split) = 2
    THEN LET value == Trim(split[1])
             key == Trim(split[2])
         IN  IF ParseU32(value) = ParseError
             THEN [st EXCEPT !.panicked = TRUE]
             ELSE IF Accepted(key, banned_set)
                  THEN [st EXCEPT
                          !.map = MapInsert(@, to_ascii_titlecase(key), ParseU32(value))]
                  ELSE [st EXCEPT !.skipped = @ + 1]
    ELSE st

\* lines 130-139: the loop body for one line; st is the builder's state:
\* the map, the skipped count and whether unwrap has panicked
CsvLineStep(st, line, banned_set) ==
    LET split == SplitChars(line, {"\t"}) IN
    IF Len(split) = 2
    THEN LET value == Trim(split[1])
             key == Trim(split[2])
         IN  IF Accepted(key, banned_set)
             THEN IF ParseU32(value) = ParseError
                  THEN [st EXCEPT !.panicked = TRUE]
                  ELSE [st EXCEPT
                          !.map = MapInsert(@, to_ascii_titlecase(key), ParseU32(value))]
             ELSE [st EXCEPT !.skipped = @ + 1]
    ELSE st

\* lines 116 and 120
CsvStart == [map |-> <<>>, skipped |-> 0, panicked |-> FALSE]

RECURSIVE FoldCsvLines(_, _, _)
FoldCsvLines(st, ls, banned_set) ==
    IF ls = <<>> \/ st.panicked THEN st
    ELSE FoldCsvLines(CsvLineStep(st, Head(ls), banned_set), Tail(ls), banned_set)

\* lines 114-147 for a readable file
parse_csv(content, banned_set) ==
    FoldCsvLines(CsvStart, Lines(content), banned_set)

(***************************************************************************)
(* Inputs of the matcher: vocabularies and texts.                          *)
(***************************************************************************)
MaxWords == 3

apple == <<"a", "p", "p", "l", "e">>
Apple == <<"A", "p", "p", "l", "e">>
APPLE == <<"A", "P", "P", "L", "E">>
juice == <<"j", "u", "i", "c", "e">>
Juice == <<"J", "u", "i", "c", "e">>
pie == <<"p", "i", "e">>
Pie == <<"P", "i", "e">>
AppleJuice == Apple \o <<" ">> \o juice
ApplePie == Apple \o <<" ">> \o pie

\* a function given as a set of <<key, identifier>> pairs
MapOf(pairs) ==
    [k \in {p[1] : p \in pairs} |-> (CHOOSE p \in pairs : p[1] = k)[2]]

\* the vocabulary of test_search_keys_in_text_cases, on the words used here
VocabCases == MapOf({<<AppleJuice, 1>>, <<APPLE, 2>>, <<juice, 4>>, <<Apple, 5>>})

\* a vocabulary of unigrams, as in test_search_keys_in_text
VocabUnigrams == MapOf({<<Apple, 1>>, <<Juice, 2>>, <<Pie, 3>>})

\* a vocabulary where both words of a bigram are keys as well, and with a
\* bigram whose second word is short
VocabOverlap ==
    MapOf({<<AppleJuice, 1>>, <<Juice, 4>>, <<Apple, 5>>, <<ApplePie, 6>>})

Vocabularies == {VocabCases, VocabUnigrams, VocabOverlap}

Words == {apple, Apple, APPLE, juice, pie, <<>>}

\* a vocabulary with keys that occur in the mask: the word of the mask and
\* the mask without its angle brackets (neither holds a delimiter)
MOLECULE == SubSeq(MASK, 3, 10)
MaskWord == SubSeq(MASK, 2, 11)
VocabMask == MapOf({<<MOLECULE, 7>>, <<MaskWord, 8>>, <<Apple, 5>>})
MaskWords == {MOLECULE, MaskWord, apple, <<>>}

\* a vocabulary with keys of three words, with a comma, with two spaces
\* and with a short second word, beside a bigram and a unigram, and the
\* words that write them out
VocabShapes ==
    MapOf({<<AppleJuice \o <<" ">> \o pie, 9>>,
           <<Apple \o <<",">> \o juice, 10>>,
           <<Apple \o <<" ", " ">> \o juice, 11>>,
           <<ApplePie, 6>>, <<AppleJuice, 1>>, <<Apple, 5>>})
ShapeWords == {Apple, juice, pie, <<>>}

Delims == {<<" ">>, <<",">>, <<"\n", "\n">>}

RECURSIVE TextsOfWords(_, _)
TextsOfWords(ws, n) ==
    IF n = 1 THEN ws
    ELSE {t \o d \o w : t \in TextsOfWords(ws, n - 1), d \in Delims, w \in ws}

Texts == UNION {TextsOfWords(Words, n) : n \in 1..MaxWords}
MaskTexts == UNION {TextsOfWords(MaskWords, n) : n \in 1..MaxWords}
ShapeTexts == UNION {TextsOfWords(ShapeWords, n) : n \in 1..MaxWords}

(***************************************************************************)
(* generate_report (main.rs lines 209-215) and the pieces of process_files *)
(* (lines 217-297) that compute values.                                    *)
(***************************************************************************)
\* a mutation of ReportLine: the context is written as it is
ReportLineUnescaped(rec, paper_id) ==
    <<"\"">> \o rec[2] \o <<"\"", ",">> \o ToDecimal(rec[3]) \o <<",", "\"">>
        \o rec[1] \o <<"\"", ",">> \o paper_id \o <<"\n">>

\* line 212: the message of one record (context, word, cid)
ReportLine(rec, paper_id) ==
    <<"\"">> \o rec[2] \o <<"\"", ",">> \o ToDecimal(rec[3]) \o <<",", "\"">>
        \o Replace(rec[1], <<"\"">>, <<"\\", "\"">>)
        \o <<"\"", ",">> \o paper_id \o <<"\n">>

\* lines 209-215: the messages written, one write_all for each record
generate_report(results, paper_id) ==
    [k \in 1..Len(results) |-> ReportLine(results[k], paper_id)]

\* opt.output_file
OutputFile == <<"o", "u", "t">>

\* a mutation of TempPath: the index is left out of the path
TempPathWithoutIndex(i) == OutputFile \o <<"_">>

\* line 231: format!("{}_{}", output_file, index), index counted from 0
TempPath(i) == OutputFile \o <<"_">> \o ToDecimal(i - 1)

\* a mutation of FileKind: whatever is not gz is read as text
FileKindLax(ext) == IF ext = "gz" THEN "gz" ELSE "txt"

\* lines 234-280: the arm of the match on the extension
FileKind(ext) ==
    IF ext = "txt" THEN "txt" ELSE IF ext = "gz" THEN "gz" ELSE "unsupported"

\* line 245: the number of matched lines after which a gz input is left
MAX_MATCHED_LINES == 1000

\* a mutation of Merged: the content read last replaces what was written
MergedLast(written_so_far, content) == content

\* line 293: writer.write_all(content)
Merged(written_so_far, content) == written_so_far \o content

\* File::create: the file exists and is empty
Created(disk, path) == MapInsert(disk, path, <<>>)

\* line 294: fs::remove_file
Removed(disk, path) == [q \in DOMAIN disk \ {path} |-> disk[q]]

\* BufWriter::flush: the buffered messages reach the file
Flushed(disk, path, buf) == MapInsert(disk, path, disk[path] \o buf)

(***************************************************************************)
(* Inputs of the vocabulary builder.                                       *)
(***************************************************************************)
MaxCsvLines == 3

example == <<"e", "x", "a", "m", "p", "l", "e">>
world == <<"w", "o", "r", "l", "d">>
World == <<"W", "o", "r", "l", "d">>
acid == <<"a", "c", "i", "d">>
Tab == <<"\t">>

\* the lines of test_parse_csv, and lines for every way a line is treated
CsvLineChoices ==
    { <<"4", "3">> \o Tab \o example,               \* banned when "exampl" is
      <<"1", "6">> \o Tab \o world,
      <<"7">> \o Tab \o World,                      \* the same key as world
      <<" ", "8", " ">> \o Tab \o <<" ">> \o world \o <<" ", "\r">>,
      <<"5">> \o Tab \o acid,                       \* too short
      <<"9">>,                                      \* one field
      <<"1">> \o Tab \o world \o Tab \o <<"2">>,    \* three fields
      <<"x">> \o Tab \o world,                      \* no number, accepted form
      <<"x">> \o Tab \o acid,                       \* no number, rejected form
      <<"4", "2", "9", "4", "9", "6", "7", "2", "9", "6">> \o Tab \o world }

RECURSIVE CsvContents(_)
CsvContents(n) ==
    IF n = 0 THEN {<<>>}
    ELSE {c \o l \o <<"\n">> : c \in CsvContents(n - 1), l \in CsvLineChoices}

BannedChoices == {{}, {<<"e", "x", "a", "m", "p", "l">>}, {world}}

(***************************************************************************)
(* Inputs of the pipeline.                                                 *)
(***************************************************************************)
MaxFiles == 2
MaxLines == 2

\* the vocabulary file and the banned stems of the pipeline's runs
PipeCsv ==
    <<"1">> \o Tab \o apple \o <<" ">> \o juice \o <<"\n">>
        \o <<"5">> \o Tab \o apple \o <<"\n">>
        \o <<"4", "3">> \o Tab \o example \o <<"\n">>

PipeBanned == {<<"e", "x", "a", "m", "p", "l">>}

\* a text with one match, between double quotes
DocQuoted == <<"a", "n", " ", "\"">> \o apple \o <<" ">> \o juice \o <<"\"">>

\* a text of two paragraphs with a match in each
DocTwoParagraphs == apple \o <<"\n", "\n">> \o Apple

DocTexts == {DocQuoted, DocTwoParagraphs}

\* an input file: its extension ("" for none), whether it can be read, its
\* content as text (a txt file) or as lines (a gz file)
InputFile(ext, readable, t, ls) ==
    [ext |-> ext, readable |-> readable, text |-> t, lines |-> ls]

\* a line of a gz file: empty, not JSON, or a JSON object that may hold the
\* text property and may hold a numeric corpusid
EmptyLine == [kind |-> "empty", has_text |-> FALSE, text |-> <<>>,
              has_id |-> FALSE, corpusid |-> 0]
MalformedLine == [kind |-> "malformed", has_text |-> FALSE, text |-> <<>>,
                  has_id |-> FALSE, corpusid |-> 0]
JsonLine(t, id) == [kind |-> "json", has_text |-> TRUE, text |-> t,
                    has_id |-> TRUE, corpusid |-> id]
JsonNoText(id) == [kind |-> "json", has_text |-> FALSE, text |-> <<>>,
                   has_id |-> TRUE, corpusid |-> id]
JsonNoId(t) == [kind |-> "json", has_text |-> TRUE, text |-> t,
                has_id |-> FALSE, corpusid |-> 0]
JsonBare == [kind |-> "json", has_text |-> FALSE, text |-> <<>>,
             has_id |-> FALSE, corpusid |-> 0]

\* a mutation of LineOutcome: the corpusid is looked up before the text
LineOutcomeIdFirst(line) ==
    IF line.kind # "json" THEN "skip"
    ELSE IF ~line.has_id THEN "exit"
    ELSE IF ~line.has_text THEN "skip"
    ELSE "match"

\* lines 249-276: what the loop body does with a line: an empty line
\* (249-252), a line that is not JSON (273-276) and an object without the
\* text property (256-259) are passed over; then an object without a
\* numeric corpusid ends the process (260-268); any other is searched
LineOutcome(line) ==
    IF line.kind # "json" THEN "skip"
    ELSE IF ~line.has_text THEN "skip"
    ELSE IF ~line.has_id THEN "exit"
    ELSE "match"

\* the corpus identifiers of test_gz_json_file
CorpusIds == {533, 435}

LineChoices ==
    {EmptyLine, MalformedLine, JsonBare}
        \cup {JsonLine(t, id) : t \in DocTexts, id \in CorpusIds}
        \cup {JsonNoText(id) : id \in CorpusIds}
        \cup {JsonNoId(t) : t \in DocTexts}

RECURSIVE LineSeqs(_)
LineSeqs(n) ==
    IF n = 0 THEN {<<>>}
    ELSE LineSeqs(n - 1)
            \cup {Append(ls, l) : ls \in LineSeqs(n - 1), l \in LineChoices}

\* every input file of one worker
AllFiles ==
    {InputFile("txt", TRUE, t, <<>>) : t \in DocTexts}
        \cup {InputFile("gz", TRUE, <<>>, ls) : ls \in LineSeqs(MaxLines)}
        \cup {InputFile(e, r, DocQuoted, <<>>) :
                  e \in {"txt", "gz", "pdf", ""}, r \in BOOLEAN}

\* the input files of the runs with several workers
TxtFile == InputFile("txt", TRUE, DocTwoParagraphs, <<>>)
GzFile == InputFile("gz", TRUE, <<>>,
                    <<JsonLine(DocQuoted, 533), JsonLine(DocTwoParagraphs, 435)>>)
PdfFile == InputFile("pdf", TRUE, DocQuoted, <<>>)
MissingFile == InputFile("txt", FALSE, <<>>, <<>>)
NoIdFile == InputFile("gz", TRUE, <<>>, <<JsonNoId(DocQuoted)>>)

FileChoices == {TxtFile, GzFile, PdfFile, MissingFile, NoIdFile}

\* a text without a match
DocPlain == pie

\* gz files with as many matched lines as line 245 allows: lines that are
\* passed over, then that many objects with text and corpusid, then lines
\* beyond them
LongLines(before, beyond) ==
    before \o [k \in 1..MAX_MATCHED_LINES |-> JsonLine(DocPlain, 435)] \o beyond

LongFiles ==
    {InputFile("gz", TRUE, <<>>, LongLines(before, beyond)) :
        before \in {<<>>, <<EmptyLine, MalformedLine, JsonNoText(533), JsonBare>>},
        beyond \in {<<>>, <<JsonLine(DocQuoted, 533)>>, <<JsonNoId(DocQuoted)>>,
                    <<EmptyLine, JsonLine(DocQuoted, 533)>>}}

RECURSIVE FileSeqs(_)
FileSeqs(n) ==
    IF n = 0 THEN {<<>>}
    ELSE FileSeqs(n - 1)
            \cup {Append(fs, f) : fs \in FileSeqs(n - 1), f \in FileChoices}

PipeInputs ==
    FileSeqs(MaxFiles) \cup {<<f>> : f \in AllFiles} \cup {<<f>> : f \in LongFiles}

(***************************************************************************)
(* State.                                                                  *)
(***************************************************************************)
VARIABLES
    \* search_keys_in_text
    map,            \* the vocabulary
    text,           \* the argument of search_keys_in_text
    paragraphs,     \* the paragraphs re.split has still to yield
    paragraph,      \* the paragraph of the running closure
    words,          \* the words paragraph.split has still to yield
    locals,         \* the locals of the paragraph closure and search_results
    pc,             \* the position of search_keys_in_text
    par_no,         \* history: the index of the running paragraph
    word_no,        \* history: the number of words consumed in it
    origin,         \* history: for each record, where it was pushed
    \* parse_csv
    content,        \* the content of the vocabulary file
    banned,         \* the banned stems
    csv_lines,      \* the lines content.lines() has still to yield
    csv,            \* the builder's map, skipped count and panic flag
    csv_pc,         \* the position of parse_csv
    \* process_files
    files,          \* opt.files
    wpc,            \* the position of each worker task
    wline,          \* the number of gz lines each worker has read
    wcount,         \* each worker's count of matched lines
    wbuf,           \* each worker's BufWriter: the messages not yet flushed
    disk,           \* the output files on disk: path -> messages
    chan,           \* the paths sent and not yet received
    tx_alive,       \* the holders of a sender: 0 is process_files itself
    opc,            \* the position of process_files
    spawned,        \* the number of tasks spawned
    owriter,        \* the BufWriter of the final output file
    cur,            \* the path received last
    exited,         \* whether process::exit was called
    arrived,        \* history: the workers whose paths were received, in order
    written,        \* history: the messages each worker passed to write_all
    prov            \* history: for each of them, the gz line and the record

searchVars == <<map, text, paragraphs, paragraph, words, locals, pc,
                par_no, word_no, origin>>
csvVars == <<content, banned, csv_lines, csv, csv_pc>>
pipeVars == <<files, wpc, wline, wcount, wbuf, disk, chan, tx_alive, opc,
              spawned, owriter, cur, exited, arrived, written, prov>>
vars == <<searchVars, csvVars, pipeVars>>

search_results == locals.search_results

\* the variables of a function that is not running
SearchIdle ==
    /\ text = <<>>
    /\ paragraphs = <<>>
    /\ paragraph = <<>>
    /\ words = <<>>
    /\ locals = EmptyLocals
    /\ pc = "idle"
    /\ par_no = 0
    /\ word_no = 0
    /\ origin = <<>>

CsvIdle ==
    /\ content = <<>>
    /\ banned = {}
    /\ csv_lines = <<>>
    /\ csv = CsvStart
    /\ csv_pc = "idle"

PipeIdle ==
    /\ files = <<>>
    /\ wpc = <<>>
    /\ wline = <<>>
    /\ wcount = <<>>
    /\ wbuf = <<>>
    /\ disk = <<>>
    /\ chan = <<>>
    /\ tx_alive = {}
    /\ opc = "idle"
    /\ spawned = 0
    /\ owriter = <<>>
    /\ cur = <<>>
    /\ exited = FALSE
    /\ arrived = <<>>
    /\ written = <<>>
    /\ prov = <<>>

(***************************************************************************)
(* search_keys_in_text as a machine: one step per word, one for the final  *)
(* pass of each paragraph.                                                 *)
(***************************************************************************)
Init ==
    /\ \/ map \in Vocabularies /\ text \in Texts
       \/ map = VocabMask /\ text \in MaskTexts
       \/ map = VocabShapes /\ text \in ShapeTexts
    /\ paragraphs = SplitParagraphs(text)
    /\ paragraph = <<>>
    /\ words = <<>>
    /\ locals = EmptyLocals
    /\ pc = "paragraph"
    /\ par_no = 0
    /\ word_no = 0
    /\ origin = <<>>
    /\ CsvIdle
    /\ PipeIdle

\* origin extended for the record a step pushed
Pushed(l, at) ==
    IF Len(l.search_results) > Len(search_results)
    THEN Append(origin, at) ELSE origin

BeginParagraph ==
    /\ pc = "paragraph"
    /\ paragraphs # <<>>
    /\ paragraph' = Head(paragraphs)
    /\ paragraphs' = Tail(paragraphs)
    /\ words' = SplitChars(Head(paragraphs), WORD_SPLITS)
    /\ locals' = ParagraphLocals(locals)
    /\ par_no' = par_no + 1
    /\ word_no' = 0
    /\ pc' = "word"
    /\ UNCHANGED <<map, text, origin, csvVars, pipeVars>>

ProcessWord ==
    /\ pc = "word"
    /\ words # <<>>
    /\ locals' = WordStep(map, paragraph, locals, Head(words))
    /\ words' = Tail(words)
    /\ word_no' = word_no + 1
    /\ origin' = Pushed(locals', [par |-> par_no, pos |-> word_no + 1, final |-> FALSE])
    /\ UNCHANGED <<map, text, paragraphs, paragraph, pc, par_no, csvVars, pipeVars>>

AddLastWord ==
    /\ pc = "word"
    /\ words = <<>>
    /\ locals' = LastWordStep(map, paragraph, locals)
    /\ origin' = Pushed(locals', [par |-> par_no, pos |-> word_no, final |-> TRUE])
    /\ pc' = "paragraph"
    /\ UNCHANGED <<map, text, paragraphs, paragraph, words, par_no, word_no,
                   csvVars, pipeVars>>

ReturnResults ==
    /\ pc = "paragraph"
    /\ paragraphs = <<>>
    /\ pc' = "done"
    /\ UNCHANGED <<map, text, paragraphs, paragraph, words, locals,
                   par_no, word_no, origin, csvVars, pipeVars>>

Next == BeginParagraph \/ ProcessWord \/ AddLastWord \/ ReturnResults

Spec == Init /\ [][Next]_vars

(***************************************************************************)
(* parse_csv as a machine: one step per line of a readable file.           *)
(***************************************************************************)
InitCsv ==
    /\ content \in UNION {CsvContents(n) : n \in 0..MaxCsvLines}
    /\ banned \in BannedChoices
    /\ csv_lines = Lines(content)
    /\ csv = CsvStart
    /\ csv_pc = "loop"
    /\ map = <<>>
    /\ SearchIdle
    /\ PipeIdle

\* lines 129-141: one line; a failed unwrap ends the function by a panic
CsvLine ==
    /\ csv_pc = "loop"
    /\ csv_lines # <<>>
    /\ csv' = CsvLineStep(csv, Head(csv_lines), banned)
    /\ csv_lines' = Tail(csv_lines)
    /\ csv_pc' = IF csv'.panicked THEN "panicked" ELSE "loop"
    /\ UNCHANGED <<content, banned, searchVars, pipeVars>>

\* lines 142-146: Ok(map)
CsvReturn ==
    /\ csv_pc = "loop"
    /\ csv_lines = <<>>
    /\ csv_pc' = "returned"
    /\ UNCHANGED <<content, banned, csv_lines, csv, searchVars, pipeVars>>

NextCsv == CsvLine \/ CsvReturn

SpecCsv == InitCsv /\ [][NextCsv]_vars

(***************************************************************************)
(* process_files as a machine (lines 217-297): the orchestrator and one    *)
(* task per input file, interleaved.  A panic inside a tokio task ends the *)
(* task alone: its locals are dropped (the BufWriter flushes, the sender   *)
(* is released) and the runtime goes on.  process::exit ends the process.  *)
(***************************************************************************)
Workers == 1..Len(files)

InitPipe ==
    /\ files \in PipeInputs
    /\ map = parse_csv(PipeCsv, PipeBanned).map          \* lines 218-219
    /\ wpc = [i \in Workers |-> "idle"]
    /\ wline = [i \in Workers |-> 0]
    /\ wcount = [i \in Workers |-> 0]
    /\ wbuf = [i \in Workers |-> <<>>]
    /\ disk = <<>>
    /\ chan = <<>>                                       \* line 220
    /\ tx_alive = {0}
    /\ opc = "spawn"
    /\ spawned = 0
    /\ owriter = <<>>
    /\ cur = <<>>
    /\ exited = FALSE
    /\ arrived = <<>>
    /\ written = [i \in Workers |-> <<>>]
    /\ prov = [i \in Workers |-> <<>>]
    /\ SearchIdle
    /\ CsvIdle

Running == ~exited /\ opc # "returned"

\* what a step of worker i leaves alone besides the variables it names
WorkerFrame == <<files, opc, spawned, owriter, cur, arrived, searchVars, csvVars>>

\* lines 222-228: the next task is spawned with its clone of the sender
Spawn ==
    /\ Running
    /\ opc = "spawn"
    /\ spawned < Len(files)
    /\ spawned' = spawned + 1
    /\ wpc' = [wpc EXCEPT ![spawned + 1] = "spawned"]
    /\ tx_alive' = tx_alive \cup {spawned + 1}
    /\ UNCHANGED <<files, wline, wcount, wbuf, disk, chan, opc, owriter, cur,
                   exited, arrived, written, prov, searchVars, csvVars>>

\* a mutation of DropTx: process_files keeps its sender while it drains
DropTxKeepsSender ==
    /\ Running
    /\ opc = "spawn"
    /\ spawned = Len(files)
    /\ opc' = "create"
    /\ UNCHANGED <<files, wpc, wline, wcount, wbuf, disk, chan, tx_alive,
                   spawned, owriter, cur, exited, arrived, written, prov,
                   searchVars, csvVars>>

\* line 287: drop(tx)
DropTx ==
    /\ Running
    /\ opc = "spawn"
    /\ spawned = Len(files)
    /\ tx_alive' = tx_alive \ {0}
    /\ opc' = "create"
    /\ UNCHANGED <<files, wpc, wline, wcount, wbuf, disk, chan, spawned,
                   owriter, cur, exited, arrived, written, prov,
                   searchVars, csvVars>>

\* line 290: the final output file is created
CreateOutput ==
    /\ Running
    /\ opc = "create"
    /\ disk' = Created(disk, OutputFile)
    /\ owriter' = <<>>
    /\ opc' = "recv"
    /\ UNCHANGED <<files, wpc, wline, wcount, wbuf, chan, tx_alive, spawned,
                   cur, exited, arrived, written, prov, searchVars, csvVars>>

\* line 291: rx.iter() yields the next path
Receive ==
    /\ Running
    /\ opc = "recv"
    /\ chan # <<>>
    /\ cur' = Head(chan)
    /\ chan' = Tail(chan)
    /\ arrived' = Append(arrived, CHOOSE i \in Workers : TempPath(i) = Head(chan))
    /\ opc' = "read"
    /\ UNCHANGED <<files, wpc, wline, wcount, wbuf, disk, tx_alive, spawned,
                   owriter, exited, written, prov, searchVars, csvVars>>

\* lines 292-293: the temporary file is read and written to the output
ReadAndWrite ==
    /\ Running
    /\ opc = "read"
    /\ cur \in DOMAIN disk
    /\ owriter' = Merged(owriter, disk[cur])
    /\ opc' = "remove"
    /\ UNCHANGED <<files, wpc, wline, wcount, wbuf, disk, chan, tx_alive,
                   spawned, cur, exited, arrived, written, prov,
                   searchVars, csvVars>>

\* line 294
Remove ==
    /\ Running
    /\ opc = "remove"
    /\ disk' = Removed(disk, cur)
    /\ opc' = "recv"
    /\ UNCHANGED <<files, wpc, wline, wcount, wbuf, chan, tx_alive, spawned,
                   owriter, cur, exited, arrived, written, prov,
                   searchVars, csvVars>>

\* lines 291 and 295-296: rx.iter() ends when the channel is empty and
\* every sender is dropped; Ok(()) is returned and the writer, dropped,
\* flushes to the final output file
Return ==
    /\ Running
    /\ opc = "recv"
    /\ chan = <<>>
    /\ tx_alive = {}
    /\ disk' = Flushed(disk, OutputFile, owriter)
    /\ owriter' = <<>>
    /\ opc' = "returned"
    /\ UNCHANGED <<files, wpc, wline, wcount, wbuf, chan, tx_alive, spawned,
                   cur, exited, arrived, written, prov, searchVars, csvVars>>

\* a mutation of Panics: a panic in a task ends the process
PanicsAborts(i) ==
    /\ exited' = TRUE
    /\ UNCHANGED <<wpc, wline, wcount, wbuf, disk, chan, tx_alive, written, prov,
                   WorkerFrame>>

\* the task of worker i ends by a panic: the writer, if it exists, flushes
\* as it is dropped, and the sender is dropped
Panics(i) ==
    /\ wpc' = [wpc EXCEPT ![i] = "panicked"]
    /\ tx_alive' = tx_alive \ {i}
    /\ disk' = IF TempPath(i) \in DOMAIN disk
               THEN Flushed(disk, TempPath(i), wbuf[i]) ELSE disk
    /\ wbuf' = [wbuf EXCEPT ![i] = <<>>]
    /\ UNCHANGED <<wline, wcount, chan, exited, written, prov, WorkerFrame>>

\* line 229: extension().unwrap() on a path without extension
WorkerNoExtension(i) ==
    /\ Running
    /\ wpc[i] = "spawned"
    /\ files[i].ext = ""
    /\ Panics(i)

\* lines 229-233: the temporary file is created
WorkerCreate(i) ==
    /\ Running
    /\ wpc[i] = "spawned"
    /\ files[i].ext # ""
    /\ disk' = Created(disk, TempPath(i))
    /\ wpc' = [wpc EXCEPT ![i] = "match"]
    /\ UNCHANGED <<wline, wcount, wbuf, chan, tx_alive, exited, written, prov,
                   WorkerFrame>>

\* line 280: panic!("Unsupported file type")
WorkerUnsupported(i) ==
    /\ Running
    /\ wpc[i] = "match"
    /\ FileKind(files[i].ext) = "unsupported"
    /\ Panics(i)

\* lines 236 and 242: unwrap of a failed read_to_string or File::open
WorkerOpenFails(i) ==
    /\ Running
    /\ wpc[i] = "match"
    /\ FileKind(files[i].ext) \in {"txt", "gz"}
    /\ ~files[i].readable
    /\ Panics(i)

\* the messages of one document appended to worker i's writer; line is the
\* gz line the document came from, 0 for a txt file
Reported(i, line, doc, paper_id) ==
    LET results == search_keys_in_text(map, doc)
        msgs == generate_report(results, paper_id)
    IN  /\ wbuf' = [wbuf EXCEPT ![i] = @ \o msgs]
        /\ written' = [written EXCEPT ![i] = @ \o msgs]
        /\ prov' = [prov EXCEPT ![i] =
                       @ \o [k \in 1..Len(results) |->
                                [line |-> line, record |-> results[k]]]]

\* lines 235-239: a txt file is one document without identifier
WorkerTxt(i) ==
    /\ Running
    /\ wpc[i] = "match"
    /\ FileKind(files[i].ext) = "txt"
    /\ files[i].readable
    /\ Reported(i, 0, files[i].text, <<>>)
    /\ wpc' = [wpc EXCEPT ![i] = "flush"]
    /\ UNCHANGED <<wline, wcount, disk, chan, tx_alive, exited, WorkerFrame>>

\* lines 240-243: a gz file is opened, count = 0
WorkerGzOpen(i) ==
    /\ Running
    /\ wpc[i] = "match"
    /\ FileKind(files[i].ext) = "gz"
    /\ files[i].readable
    /\ wcount' = [wcount EXCEPT ![i] = 0]
    /\ wpc' = [wpc EXCEPT ![i] = "lines"]
    /\ UNCHANGED <<wline, wbuf, disk, chan, tx_alive, exited, written, prov,
                   WorkerFrame>>

\* the line worker i reads next
NextLine(i) == files[i].lines[wline[i] + 1]

\* a mutation of MoreLines: the count of matched lines is not tested
MoreLinesUncapped(i) == wline[i] < Len(files[i].lines)

\* whether the loop over the lines goes on: line 244 and lines 245-247 (the
\* line the reader has yielded when the count is found at its maximum is
\* dropped as it is)
MoreLines(i) ==
    /\ wline[i] < Len(files[i].lines)
    /\ wcount[i] # MAX_MATCHED_LINES

\* lines 249-252, 256-259 and 273-276: an empty line, a line that is not
\* JSON and an object without the text property are passed over
WorkerSkipLine(i) ==
    /\ Running
    /\ wpc[i] = "lines"
    /\ MoreLines(i)
    /\ LineOutcome(NextLine(i)) = "skip"
    /\ wline' = [wline EXCEPT ![i] = @ + 1]
    /\ UNCHANGED <<wpc, wcount, wbuf, disk, chan, tx_alive, exited, written,
                   prov, WorkerFrame>>

\* lines 260-268: an object with the text property and no numeric corpusid
\* ends the process
WorkerExit(i) ==
    /\ Running
    /\ wpc[i] = "lines"
    /\ MoreLines(i)
    /\ LineOutcome(NextLine(i)) = "exit"
    /\ exited' = TRUE
    /\ UNCHANGED <<wpc, wline, wcount, wbuf, disk, chan, tx_alive, written,
                   prov, WorkerFrame>>

\* lines 269-271: the text of the line is searched and reported under the
\* line's corpusid
WorkerMatchLine(i) ==
    /\ Running
    /\ wpc[i] = "lines"
    /\ MoreLines(i)
    /\ LineOutcome(NextLine(i)) = "match"
    /\ Reported(i, wline[i] + 1, NextLine(i).text, ToDecimal(NextLine(i).corpusid))
    /\ wcount' = [wcount EXCEPT ![i] = @ + 1]
    /\ wline' = [wline EXCEPT ![i] = @ + 1]
    /\ UNCHANGED <<wpc, disk, chan, tx_alive, exited, WorkerFrame>>

\* lines 244-247: the loop ends
WorkerLinesDone(i) ==
    /\ Running
    /\ wpc[i] = "lines"
    /\ ~MoreLines(i)
    /\ wpc' = [wpc EXCEPT ![i] = "flush"]
    /\ UNCHANGED <<wline, wcount, wbuf, disk, chan, tx_alive, exited, written,
                   prov, WorkerFrame>>

\* line 282
WorkerFlush(i) ==
    /\ Running
    /\ wpc[i] = "flush"
    /\ disk' = Flushed(disk, TempPath(i), wbuf[i])
    /\ wbuf' = [wbuf EXCEPT ![i] = <<>>]
    /\ wpc' = [wpc EXCEPT ![i] = "send"]
    /\ UNCHANGED <<wline, wcount, chan, tx_alive, exited, written, prov,
                   WorkerFrame>>

\* line 283
WorkerSend(i) ==
    /\ Running
    /\ wpc[i] = "send"
    /\ chan' = Append(chan, TempPath(i))
    /\ wpc' = [wpc EXCEPT ![i] = "sent"]
    /\ UNCHANGED <<wline, wcount, wbuf, disk, tx_alive, exited, written, prov,
                   WorkerFrame>>

\* line 284: the task ends, its writer and its sender are dropped
WorkerEnd(i) ==
    /\ Running
    /\ wpc[i] = "sent"
    /\ wpc' = [wpc EXCEPT ![i] = "finished"]
    /\ tx_alive' = tx_alive \ {i}
    /\ UNCHANGED <<wline, wcount, wbuf, disk, chan, exited, written, prov,
                   WorkerFrame>>

NextPipe ==
    \/ Spawn
    \/ DropTx
    \/ CreateOutput
    \/ Receive
    \/ ReadAndWrite
    \/ Remove
    \/ Return
    \/ \E i \in Workers : WorkerNoExtension(i)
    \/ \E i \in Workers : WorkerCreate(i)
    \/ \E i \in Workers : WorkerUnsupported(i)
    \/ \E i \in Workers : WorkerOpenFails(i)
    \/ \E i \in Workers : WorkerTxt(i)
    \/ \E i \in Workers : WorkerGzOpen(i)
    \/ \E i \in Workers : WorkerSkipLine(i)
    \/ \E i \in Workers : WorkerExit(i)
    \/ \E i \in Workers : WorkerMatchLine(i)
    \/ \E i \in Workers : WorkerLinesDone(i)
    \/ \E i \in Workers : WorkerFlush(i)
    \/ \E i \in Workers : WorkerSend(i)
    \/ \E i \in Workers : WorkerEnd(i)

SpecPipe == InitPipe /\ [][NextPipe]_vars

\* the steps of process_files itself, and the end of the task of input i
OrchestratorStep ==
    Spawn \/ DropTx \/ CreateOutput \/ Receive \/ ReadAndWrite \/ Remove \/ Return

TaskEnds(i) == i \in Workers /\ WorkerEnd(i)

\* the multi-thread runtime of line 299 keeps running process_files, and a
\* task that has sent its path runs to its end (the fairness of the other
\* steps of a task is not needed below)
SpecPipeFair ==
    /\ InitPipe
    /\ [][NextPipe]_vars
    /\ WF_vars(OrchestratorStep)
    /\ \A i \in 1..MaxFiles : WF_vars(TaskEnds(i))

(***************************************************************************)
(* Properties of search_keys_in_text, checked under Spec.                  *)
(***************************************************************************)
\* the paragraphs of the text, and the words of the p-th one
ParagraphText(p) == SplitParagraphs(text)[p]
WordsOf(p) == SplitChars(ParagraphText(p), WORD_SPLITS)

\* the indices of the records pushed while paragraph p was running
RecordsOf(p) == {k \in DOMAIN origin : origin[k].par = p}

\* whether pat occurs somewhere in s
Occurs(pat, s) == \E i \in 1..Len(s) : MatchesAt(s, i, pat)

\* the n-th smallest element of a set of integers
Nth(S, n) == CHOOSE i \in S : Cardinality({j \in S : j <= i}) = n

\* the bigram candidate the claims speak of, at word i of a word list:
\* titlecase(previous word) + " " + word
Candidate(ws, i) ==
    (IF i = 1 THEN <<>> ELSE to_ascii_titlecase(ws[i - 1])) \o <<" ">> \o ws[i]

\* C1: at a word w of length >= 5 whose bigram candidate
\* titlecase(previous word) + " " + w is a vocabulary key not yet in the
\* paragraph's seen set, the step pushes exactly one record, and it is the
\* record of the bigram key with the bigram's identifier (none for the
\* previous word alone, none for w alone).
C1_BigramPrecedence ==
    [][ ( /\ pc = "word"
          /\ words # <<>>
          /\ word_no >= 1
          /\ Len(Head(words)) >= 5
          /\ Candidate(WordsOf(par_no), word_no + 1) \in DOMAIN map
          /\ Candidate(WordsOf(par_no), word_no + 1) \notin locals.seen )
        => LET cand == Candidate(WordsOf(par_no), word_no + 1)
               n == Len(search_results)
           IN  /\ Len(search_results') = n + 1
               /\ SubSeq(search_results', 1, n) = search_results
               /\ search_results'[n + 1][2] = cand
               /\ search_results'[n + 1][3] = map[cand]
      ]_vars

\* C1 witness: a bigram record was pushed in the word loop at a position
\* where the previous word alone was a vocabulary key not yet seen
C1_Witness ==
    \E k \in DOMAIN origin :
        /\ ~origin[k].final
        /\ origin[k].pos >= 2
        /\ search_results[k][2] = Candidate(WordsOf(origin[k].par), origin[k].pos)
        /\ LET prev == to_ascii_titlecase(WordsOf(origin[k].par)[origin[k].pos - 1])
           IN  /\ prev \in DOMAIN map
               /\ \A j \in RecordsOf(origin[k].par) : search_results[j][2] # prev

\* the positions of a word list whose title-cased word is a vocabulary key
\* of length >= 5 that no earlier word of the list title-cases to
FirstOccurrences(ws) ==
    {i \in 1..Len(ws) :
        /\ Len(ws[i]) >= 5
        /\ to_ascii_titlecase(ws[i]) \in DOMAIN map
        /\ \A j \in 1..(i - 1) :
               to_ascii_titlecase(ws[j]) # to_ascii_titlecase(ws[i])}

NoBigramCandidate(p) ==
    \A i \in 1..Len(WordsOf(p)) : Candidate(WordsOf(p), i) \notin DOMAIN map

\* C2: for a paragraph none of whose bigram candidates is a vocabulary
\* key, the records are exactly one per distinct vocabulary key of length
\* >= 5 that some word title-cases to (the last word included), in the
\* order of the keys' first occurrences, each with the key's identifier;
\* a word that differs from a key in a later letter's case adds none.
C2_UnigramRecords ==
    pc = "done" =>
        \A p \in 1..par_no :
            NoBigramCandidate(p) =>
                LET first == FirstOccurrences(WordsOf(p))
                    recs == RecordsOf(p)
                IN  /\ Cardinality(recs) = Cardinality(first)
                    /\ \A n \in 1..Cardinality(recs) :
                           LET key == to_ascii_titlecase(WordsOf(p)[Nth(first, n)])
                           IN  /\ search_results[Nth(recs, n)][2] = key
                               /\ search_results[Nth(recs, n)][3] = map[key]

\* C2 witness: a finished paragraph without bigram candidates with two
\* records, the second from the final pass, and a word APPLE that matches
\* no key
C2_Witness ==
    /\ pc = "done"
    /\ \E p \in 1..par_no :
           /\ NoBigramCandidate(p)
           /\ Cardinality(RecordsOf(p)) = 2
           /\ \E k \in RecordsOf(p) : origin[k].final
           /\ \E i \in 1..Len(WordsOf(p)) :
                  WordsOf(p)[i] = APPLE /\ APPLE \notin DOMAIN map

\* the keys the matcher reports for a text searched on its own
KeysAlone(t) ==
    LET rs == search_keys_in_text(map, t) IN {rs[k][2] : k \in DOMAIN rs}

\* C3: no two records of one paragraph carry the same key, whether pushed
\* in the word loop or in the final pass; and a key the matcher reports for
\* a paragraph has exactly one record in each paragraph it is reported for.
C3_OncePerParagraph ==
    /\ \A i, j \in DOMAIN search_results :
           (i < j /\ origin[i].par = origin[j].par)
               => search_results[i][2] # search_results[j][2]
    /\ pc = "done" =>
           \A p \in 1..par_no :
               \A key \in KeysAlone(ParagraphText(p)) :
                   Cardinality({k \in RecordsOf(p) : search_results[k][2] = key}) = 1

\* C3 witness: a key that occurs twice in the first paragraph and again in
\* the second has one record in each
C3_Witness ==
    /\ pc = "done"
    /\ par_no = 2
    /\ \E i, j \in 1..Len(WordsOf(1)) :
           i < j /\ WordsOf(1)[i] = apple /\ WordsOf(1)[j] = Apple
    /\ \E i \in RecordsOf(1), j \in RecordsOf(2) :
           /\ search_results[i][2] = Apple
           /\ search_results[j][2] = Apple
           /\ origin[j].final

\* a paragraph with every occurrence of key and of key with its first
\* letter lowercased replaced by the mask, read in one pass from the left
RECURSIVE MaskVariants(_, _)
MaskVariants(s, key) ==
    IF s = <<>> THEN s
    ELSE IF MatchesAt(s, 1, key) \/ MatchesAt(s, 1, from_ascii_titlecase(key))
         THEN MASK \o MaskVariants(Drop(s, Len(key) + 1), key)
         ELSE <<s[1]>> \o MaskVariants(Tail(s), key)

\* a paragraph with every occurrence of one pattern replaced by the mask,
\* read from the left
RECURSIVE MaskEach(_, _)
MaskEach(s, pat) ==
    IF s = <<>> \/ pat = <<>> THEN s
    ELSE IF MatchesAt(s, 1, pat)
         THEN MASK \o MaskEach(Drop(s, Len(pat) + 1), pat)
         ELSE <<s[1]>> \o MaskEach(Tail(s), pat)

\* C4 as claimed: the context of every record is the record's own paragraph
\* with every occurrence of the key and of the key with its first letter
\* lowercased replaced by the mask and the rest unchanged; neither form
\* remains anywhere in the context.
C4_ContextMasksBothForms ==
    \A k \in DOMAIN search_results :
        LET context == search_results[k][1]
            key == search_results[k][2]
        IN  /\ context = MaskVariants(ParagraphText(origin[k].par), key)
            /\ ~Occurs(key, context)
            /\ ~Occurs(from_ascii_titlecase(key), context)

\* C4 amended: for every record whose key does not occur in the mask, the
\* context is the record's own paragraph with every occurrence of the key,
\* and then every occurrence of the key with its first letter lowercased,
\* replaced by the mask and the rest unchanged; neither form remains.
C4_ContextMasksKeyOutsideMask ==
    \A k \in DOMAIN search_results :
        LET context == search_results[k][1]
            key == search_results[k][2]
        IN  ~Occurs(key, MASK) =>
                /\ context = MaskEach(MaskEach(ParagraphText(origin[k].par), key),
                                      from_ascii_titlecase(key))
                /\ ~Occurs(key, context)
                /\ ~Occurs(from_ascii_titlecase(key), context)

\* C4 witness: a record of the second of two paragraphs, whose paragraph
\* holds both forms of the key
C4_Witness ==
    \E k \in DOMAIN search_results :
        /\ origin[k].par = 2
        /\ ~Occurs(search_results[k][2], MASK)
        /\ Occurs(search_results[k][2], ParagraphText(2))
        /\ Occurs(from_ascii_titlecase(search_results[k][2]), ParagraphText(2))
        /\ from_ascii_titlecase(search_results[k][2]) # search_results[k][2]

\* a key without any delimiter character
IsSingleWord(key) == \A i \in DOMAIN key : key[i] \notin WORD_SPLITS

SplitsAt(i) ==
    /\ MatchesAt(text, i, <<"\n", "\n">>)
    /\ ~Occurs(<<"\n", "\n">>, SubSeq(text, 1, i - 1))
    /\ ~Occurs(<<"\n", "\n">>, Drop(text, i + 2))
    /\ (i > 1 => text[i - 1] # "\n")
    /\ (i + 2 <= Len(text) => text[i + 2] # "\n")

\* C6: for p1 and p2 without two consecutive newlines, p1 not ending and p2
\* not starting with a newline, the records of p1 + "\n\n" + p2 are the
\* records of p1 searched alone followed by those of p2 searched alone
\* (keys, identifiers and contexts).
C6_ParagraphsIndependent ==
    pc = "done" =>
        \A i \in 1..Len(text) :
            SplitsAt(i) =>
                search_results =
                    search_keys_in_text(map, SubSeq(text, 1, i - 1))
                        \o search_keys_in_text(map, Drop(text, i + 2))

\* C6 witness: a text of two paragraphs, each with a record, where the last
\* word of the first and the first word of the second form a bigram key
C6_Witness ==
    /\ pc = "done"
    /\ \E i \in 1..Len(text) :
           /\ SplitsAt(i)
           /\ search_keys_in_text(map, SubSeq(text, 1, i - 1)) # <<>>
           /\ search_keys_in_text(map, Drop(text, i + 2)) # <<>>
           /\ LET w1 == WordsOf(1)
                  w2 == WordsOf(2)
              IN  to_ascii_titlecase(w1[Len(w1)]) \o <<" ">> \o w2[1] \in DOMAIN map

(***************************************************************************)
(* Properties of parse_csv, checked under SpecCsv.                         *)
(***************************************************************************)
\* the fields of the i-th line of the vocabulary file
FieldsOf(i) == SplitChars(Lines(content)[i], {"\t"})

\* the surface form and the identifier field of a two-field line, trimmed
FormOf(i) == Trim(FieldsOf(i)[2])
IdOf(i) == Trim(FieldsOf(i)[1])

\* the lines the claim counts: two fields, a form of length >= 5 whose
\* normalized stem is not banned
AcceptedLines ==
    {i \in 1..Len(Lines(content)) :
        /\ Len(FieldsOf(i)) = 2
        /\ Len(FormOf(i)) >= 5
        /\ standardize(FormOf(i)) \notin banned}

\* C9: the map parse_csv returns holds exactly the keys titlecase(s) of the
\* surface forms s of the two-field lines with length(s) >= 5 and
\* standardize(s) not banned, each mapped to the identifier of the last
\* such line with that key; other lines add no entry.
C9_ReturnedMap ==
    csv_pc = "returned" =>
        /\ DOMAIN csv.map = {to_ascii_titlecase(FormOf(i)) : i \in AcceptedLines}
        /\ \A key \in DOMAIN csv.map :
               LET last == CHOOSE i \in AcceptedLines :
                               /\ to_ascii_titlecase(FormOf(i)) = key
                               /\ \A j \in AcceptedLines :
                                      to_ascii_titlecase(FormOf(j)) = key => j <= i
               IN  csv.map[key] = ParseU32(IdOf(last))

\* C9 witness: a returned map where a later line has replaced the
\* identifier of an earlier one, beside a line that was rejected
C9_Witness ==
    /\ csv_pc = "returned"
    /\ csv.skipped >= 1
    /\ \E i, j \in AcceptedLines :
           /\ i < j
           /\ to_ascii_titlecase(FormOf(i)) = to_ascii_titlecase(FormOf(j))
           /\ FormOf(i) # FormOf(j)
           /\ ParseU32(IdOf(i)) # ParseU32(IdOf(j))
           /\ csv.map[to_ascii_titlecase(FormOf(j))] = ParseU32(IdOf(j))

(***************************************************************************)
(* Properties of process_files and generate_report, checked under SpecPipe.*)
(***************************************************************************)
\* the messages the workers of a sequence passed to write_all, worker
\* after worker
RECURSIVE ConcatWritten(_)
ConcatWritten(ws) ==
    IF ws = <<>> THEN <<>> ELSE written[Head(ws)] \o ConcatWritten(Tail(ws))

\* C7: when process_files returns and no worker has failed, the final
\* output file is the content of every worker's temporary file, each once
\* and as one block, in the order the paths arrived on the channel, and no
\* temporary file is left.
C7_MergedInArrivalOrder ==
    (opc = "returned" /\ \A i \in Workers : wpc[i] = "finished") =>
        /\ Len(arrived) = Len(files)
        /\ {arrived[k] : k \in DOMAIN arrived} = Workers
        /\ disk[OutputFile] = ConcatWritten(arrived)
        /\ DOMAIN disk = {OutputFile}

\* C7 witness: two workers, both with records, the second one's path
\* arrived first
C7_Witness ==
    /\ opc = "returned"
    /\ Len(files) = 2
    /\ \A i \in Workers : wpc[i] = "finished" /\ written[i] # <<>>
    /\ written[1] # written[2]
    /\ arrived = <<2, 1>>

\* a string with a backslash put before each double quote
RECURSIVE EscapeQuotes(_)
EscapeQuotes(s) ==
    IF s = <<>> THEN s
    ELSE (IF s[1] = "\"" THEN <<"\\", "\"">> ELSE <<s[1]>>) \o EscapeQuotes(Tail(s))

\* the document identifier C8 expects for a message of worker i that came
\* from gz line n (0 for a txt file)
DocumentId(i, n) ==
    IF files[i].ext = "txt" THEN <<>> ELSE ToDecimal(files[i].lines[n].corpusid)

\* the text whose search produced a message of worker i
SourceText(i, n) ==
    IF files[i].ext = "txt" THEN files[i].text ELSE files[i].lines[n].text

\* C8: every message written for a record (context, key, id) is
\* "key",id,"context",document_id and a newline, each double quote of the
\* context preceded by a backslash; document_id is empty for a txt input
\* and, for a gz input, the corpusid of the very line whose text yielded
\* the record.
C8_ReportLineFormat ==
    \A i \in Workers :
        \A k \in DOMAIN written[i] :
            LET rec == prov[i][k].record
                n == prov[i][k].line
                found == search_keys_in_text(map, SourceText(i, n))
            IN  /\ (files[i].ext = "txt") = (n = 0)
                /\ \E r \in DOMAIN found : found[r] = rec
                /\ written[i][k] =
                       <<"\"">> \o rec[2] \o <<"\"", ",">> \o ToDecimal(rec[3])
                           \o <<",", "\"">> \o EscapeQuotes(rec[1])
                           \o <<"\"", ",">> \o DocumentId(i, n) \o <<"\n">>

\* C8 witness: a gz worker has written messages for two lines with
\* different identifiers, one of a context that holds a double quote
C8_Witness ==
    \E i \in Workers :
        /\ files[i].ext = "gz"
        /\ \E j, k \in DOMAIN written[i] :
               /\ prov[i][j].line = 1
               /\ prov[i][k].line = 2
               /\ files[i].lines[1].corpusid # files[i].lines[2].corpusid
               /\ Occurs(<<"\"">>, prov[i][j].record[1])

\* whether the i-th input has an extension other than txt and gz
Unsupported(i) == files[i].ext \notin {"txt", "gz", ""}

Parsed(i, n) == files[i].lines[n].kind = "json"

\* the lines of input i the loop of its worker has passed
PassedLines(i) == 1..wline[i]

\* the messages worker i has written for line n
MessagesOf(i, n) == {k \in DOMAIN prov[i] : prov[i][k].line = n}

\* a worker stands before a parsed object with the text property and
\* without a numeric corpusid
AtTextWithoutId(i) ==
    /\ wpc[i] = "lines"
    /\ MoreLines(i)
    /\ Parsed(i, wline[i] + 1)
    /\ NextLine(i).has_text
    /\ ~NextLine(i).has_id

\* C11 as claimed: every parsed object without a numeric corpusid ends the
\* run, with or without the text property (so the loop passes none), and an
\* object that lacks only the text property is passed over without a
\* message.
C11_MissingIdAlwaysEndsRun ==
    \A i \in Workers :
        \A n \in PassedLines(i) :
            Parsed(i, n) =>
                /\ files[i].lines[n].has_id
                /\ ~files[i].lines[n].has_text => MessagesOf(i, n) = {}

\* C11 amended: a parsed object with the text property and without a
\* numeric corpusid ends the run: the loop never passes it, the process
\* exits only before such an object and then process_files does not
\* return; an object without the text property is passed over without a
\* message, with or without a corpusid.
C11_TextIsTestedBeforeId ==
    /\ \A i \in Workers :
           \A n \in PassedLines(i) :
               Parsed(i, n) =>
                   /\ files[i].lines[n].has_text => files[i].lines[n].has_id
                   /\ ~files[i].lines[n].has_text => MessagesOf(i, n) = {}
    /\ exited => (opc # "returned" /\ \E i \in Workers : AtTextWithoutId(i))

\* C11 witness: the loop has passed an object with neither text nor
\* corpusid and the process has exited at the next line, an object with the
\* text and without corpusid
C11_Witness ==
    \E i \in Workers :
        /\ exited
        /\ wline[i] = 1
        /\ files[i].lines[1] = JsonBare
        /\ AtTextWithoutId(i)

\* whether the i-th input, of a supported extension, cannot be read
Unreadable(i) == files[i].ext \in {"txt", "gz"} /\ ~files[i].readable

\* whether the i-th input is of a supported extension and can be read
Readable(i) == files[i].ext \in {"txt", "gz"} /\ files[i].readable

\* C12: a failed read of one input abandons that input's worker alone: the
\* worker writes no record and sends no path, the process does not exit
\* because of it, and when process_files has returned the final output
\* holds all the records of every other readable input, each input's
\* records once and as one block.
C12_ReadFailureIsolated ==
    /\ \A i \in Workers :
           Unreadable(i) =>
               /\ wpc[i] \in {"idle", "spawned", "match", "panicked"}
               /\ written[i] = <<>>
               /\ \A k \in DOMAIN arrived : arrived[k] # i
               /\ \A k \in DOMAIN chan : chan[k] # TempPath(i)
    /\ exited => \E j \in Workers : Readable(j) /\ wpc[j] = "lines"
    /\ (opc = "returned" /\ \E i \in Workers : Unreadable(i)) =>
           /\ disk[OutputFile] = ConcatWritten(arrived)
           /\ \A j \in Workers :
                  Readable(j) =>
                      /\ wpc[j] = "finished"
                      /\ Cardinality({k \in DOMAIN arrived : arrived[k] = j}) = 1

\* C12 witness: process_files has returned after the read of one input
\* failed, with the records of the other input as the final output
C12_Witness ==
    /\ opc = "returned"
    /\ \E i, j \in Workers :
           /\ Unreadable(i)
           /\ wpc[i] = "panicked"
           /\ Readable(j)
           /\ Len(written[j]) >= 2
           /\ disk[OutputFile] = written[j]

\* every worker has sent its path or has ended by a failure
AllSentOrFailed ==
    /\ opc \notin {"idle", "returned"}
    /\ \A i \in Workers : wpc[i] \in {"sent", "finished", "panicked"}

\* C15: under fair scheduling, once every worker has sent its path or has
\* ended by a failure, the drain loop comes to its end and process_files
\* returns.
C15_DrainTerminates == AllSentOrFailed ~> (opc = "returned")

\* C15 witness: process_files has returned after one worker sent its path
\* and the other ended by a panic without sending
C15_Witness ==
    /\ opc = "returned"
    /\ tx_alive = {}
    /\ \E i, j \in Workers :
           /\ wpc[i] = "panicked"
           /\ wpc[j] = "finished"
           /\ arrived = <<j>>

\* the workers whose paths are in the channel, and those whose paths the
\* orchestrator has received
InChannel == {i \in Workers : \E k \in DOMAIN chan : chan[k] = TempPath(i)}
Received == {arrived[k] : k \in DOMAIN arrived}

\* C16: in every interleaving, the temporary paths differ from each other
\* and from the final output path; a path is sent only when all the
\* worker's records are written and flushed to its file; the orchestrator
\* reads and deletes only the file whose path it has received; no file is
\* deleted while its worker is still writing.
C16_TempFileHandOff ==
    /\ \A i, j \in Workers : i # j => TempPath(i) # TempPath(j)
    /\ \A i \in Workers : TempPath(i) # OutputFile
    /\ \A i \in InChannel \cup Received :
           /\ wpc[i] \in {"sent", "finished"}
           /\ wbuf[i] = <<>>
    /\ \A i \in InChannel :
           /\ TempPath(i) \in DOMAIN disk
           /\ disk[TempPath(i)] = written[i]
    /\ opc \in {"read", "remove"} =>
           /\ arrived # <<>>
           /\ cur = TempPath(arrived[Len(arrived)])
    /\ opc = "read" =>
           /\ cur \in DOMAIN disk
           /\ disk[cur] = written[arrived[Len(arrived)]]
    /\ \A i \in Workers :
           wpc[i] \in {"match", "lines", "flush", "send"} => TempPath(i) \in DOMAIN disk

\* C16 witness: the orchestrator reads the file of the second worker while
\* the first worker still holds records that are not flushed
C16_Witness ==
    /\ opc = "read"
    /\ Len(files) = 2
    /\ cur = TempPath(2)
    /\ wpc[1] \in {"lines", "flush"}
    /\ wbuf[1] # <<>>

\* the lines among the first n of input i that are parsed objects, and
\* those that are parsed objects with the text property and a corpusid
ParsedAmong(i, n) == {k \in 1..n : Parsed(i, k)}
MatchedAmong(i, n) ==
    {k \in 1..n : /\ Parsed(i, k)
                  /\ files[i].lines[k].has_text
                  /\ files[i].lines[k].has_id}

\* C19 as claimed: the matcher is run on at most 1000 lines of one gz
\* input, and once 1000 parsed lines have been passed no further line is
\* passed.
C19_CapCountsParsedLines ==
    \A i \in Workers :
        /\ wcount[i] <= MAX_MATCHED_LINES
        /\ wline[i] >= 1 =>
               Cardinality(ParsedAmong(i, wline[i] - 1)) < MAX_MATCHED_LINES

\* C19 amended: the matcher is run on at most 1000 lines of one gz input;
\* the count is that of the lines that were matched (parsed objects with
\* the text property and a corpusid), and once 1000 of them have been
\* passed no further line is passed, parsed or matched; the lines passed
\* over (empty, not JSON, without text) do not count.
C19_CapCountsMatchedLines ==
    \A i \in Workers :
        /\ wcount[i] <= MAX_MATCHED_LINES
        /\ wcount[i] = Cardinality(MatchedAmong(i, wline[i]))
        /\ wline[i] >= 1 =>
               Cardinality(MatchedAmong(i, wline[i] - 1)) < MAX_MATCHED_LINES
        /\ \A k \in DOMAIN prov[i] : prov[i][k].line <= wline[i]

\* C19 witness: a worker has ended its loop with 1000 matched lines, after
\* it had passed over a parsed object without text, and with a line left
\* that would have matched
C19_Witness ==
    \E i \in Workers :
        /\ wpc[i] \in {"flush", "send", "sent", "finished"}
        /\ wcount[i] = MAX_MATCHED_LINES
        /\ wline[i] < Len(files[i].lines)
        /\ files[i].lines[Len(files[i].lines)] = JsonLine(DocQuoted, 533)
        /\ \E k \in 1..wline[i] : Parsed(i, k) /\ ~files[i].lines[k].has_text
        /\ written[i] = <<>>

(***************************************************************************)
(* Further properties of search_keys_in_text, checked under Spec.          *)
(***************************************************************************)
\* whether the key or the key with its first letter lowercased stands at
\* position i of s
FormAt(s, i, key) ==
    MatchesAt(s, i, key) \/ MatchesAt(s, i, from_ascii_titlecase(key))

\* s with the first occurrence of either form of key replaced by the mask
RECURSIVE MaskFirst(_, _)
MaskFirst(s, key) ==
    IF s = <<>> THEN s
    ELSE IF FormAt(s, 1, key) THEN MASK \o Drop(s, Len(key) + 1)
    ELSE <<s[1]>> \o MaskFirst(Tail(s), key)

\* the number of occurrences of either form of key in s, counted from the
\* left without overlap
RECURSIVE CountForms(_, _)
CountForms(s, key) ==
    IF s = <<>> \/ key = <<>> THEN 0
    ELSE IF FormAt(s, 1, key) THEN 1 + CountForms(Drop(s, Len(key) + 1), key)
    ELSE CountForms(Tail(s), key)

\* C14 as claimed: the context of a record is its paragraph with the first
\* occurrence of the matched form replaced by the mask, later occurrences
\* left as they are.
C14_OnlyFirstOccurrenceMasked ==
    \A k \in DOMAIN search_results :
        search_results[k][1]
            = MaskFirst(ParagraphText(origin[k].par), search_results[k][2])

\* C14 amended: in the context of a record whose key does not occur in the
\* mask, every occurrence of the key and of the key with its first letter
\* lowercased in the paragraph is replaced by a mask, the later ones as well
\* as the first: the context holds as many masks more than the paragraph as
\* the paragraph holds occurrences.
C14_LaterOccurrencesMasked ==
    \A k \in DOMAIN search_results :
        LET context == search_results[k][1]
            key == search_results[k][2]
            own == ParagraphText(origin[k].par)
        IN  ~Occurs(key, MASK) =>
                CountForms(context, MASK)
                    = CountForms(own, MASK) + CountForms(own, key)

\* C14 witness: a record whose paragraph holds its key twice and whose
\* context holds two masks
C14_Witness ==
    \E k \in DOMAIN search_results :
        /\ ~Occurs(search_results[k][2], MASK)
        /\ CountForms(ParagraphText(origin[k].par), search_results[k][2]) = 2
        /\ CountForms(search_results[k][1], MASK) = 2

\* C17: the context of every record holds the mask at least once and so
\* differs from the record's paragraph, also for a bigram whose words are
\* separated in the text by a delimiter other than one space.
C17_ContextHoldsMask ==
    \A k \in DOMAIN search_results :
        /\ Occurs(MASK, search_results[k][1])
        /\ search_results[k][1] # ParagraphText(origin[k].par)

\* whether key is one word followed by one space and a second word of at
\* least 5 characters
IsBigramShape(key) ==
    \E i \in 2..(Len(key) - 1) :
        /\ key[i] = " "
        /\ IsSingleWord(SubSeq(key, 1, i - 1))
        /\ IsSingleWord(Drop(key, i + 1))
        /\ Len(key) - i >= 5

\* C18: every key reported is one word, or one word, one space and a
\* second word of at least 5 characters; a key of three words, a key with
\* another delimiter and a bigram with a shorter second word are never
\* reported, even when the vocabulary holds them.
C18_ReportedKeyShapes ==
    \A k \in DOMAIN search_results :
        \/ IsSingleWord(search_results[k][2])
        \/ IsBigramShape(search_results[k][2])

\* C18 witness: the text holds a key of three words of the vocabulary
\* verbatim; there is a record of the bigram it begins with and none of the
\* key itself
C18_Witness ==
    /\ pc = "done"
    /\ map = VocabShapes
    /\ Occurs(AppleJuice \o <<" ">> \o pie, text)
    /\ \E k \in DOMAIN search_results : search_results[k][2] = AppleJuice
    /\ \A k \in DOMAIN search_results :
           search_results[k][2] # AppleJuice \o <<" ">> \o pie

(***************************************************************************)
(* Failing identifiers in parse_csv, checked under SpecCsv.                *)
(***************************************************************************)
\* the two-field lines of the vocabulary file
TwoFieldLines == {i \in 1..Len(Lines(content)) : Len(FieldsOf(i)) = 2}

\* whether the identifier field of a two-field line is no u32
BadId(i) == ParseU32(IdOf(i)) = ParseError

\* the number of lines the loop has taken
LinesTaken == Len(Lines(content)) - Len(csv_lines)

\* C13 as claimed: a two-field line whose identifier is no u32 makes
\* parse_csv abort, whether its form is accepted or rejected: a call that
\* returns has seen no such line.
C13_AnyBadIdAborts ==
    csv_pc = "returned" => \A i \in TwoFieldLines : ~BadId(i)

\* C13 amended: parse_csv aborts, returning no map, at the first line that
\* is accepted by the length and banned tests and whose identifier is no
\* u32, and only there: a call that returns has seen no such line, and a
\* line whose form is rejected never aborts it.
C13_BadIdOfAcceptedAborts ==
    /\ csv_pc = "returned" => \A i \in AcceptedLines : ~BadId(i)
    /\ csv_pc = "panicked" =>
           /\ LinesTaken \in AcceptedLines
           /\ BadId(LinesTaken)
           /\ \A j \in AcceptedLines : j < LinesTaken => ~BadId(j)
    /\ csv_pc = "loop" => \A j \in AcceptedLines : j <= LinesTaken => ~BadId(j)

\* C13 witness: parse_csv has panicked at an accepted line after it had
\* passed a rejected line with an identifier that is no u32 and had put an
\* entry into its map
C13_Witness ==
    /\ csv_pc = "panicked"
    /\ DOMAIN csv.map # {}
    /\ \E j \in TwoFieldLines :
           j < LinesTaken /\ j \notin AcceptedLines /\ BadId(j)

=============================================================================
